---------------------------- MODULE Spec2Model ----------------------------
(***************************************************************************)
(* Model of src/main.py of jarovo/fakturoid-api: the scraper that turns    *)
(* the attribute tables of the Fakturoid API documentation into an         *)
(* OpenAPI component registry.                                             *)
(*                                                                         *)
(* Python str values are modelled as sequences of one-character strings,   *)
(* so that str.lower, str.capitalize, str.split, str.lstrip and            *)
(* concatenation are computed character by character.  Python None is the  *)
(* value None below, which is no character sequence of the model.          *)
(*                                                                         *)
(* Two specifications share the module:                                    *)
(*   Spec      - the page loop of main() (lines 199-207) with parse_page;  *)
(*   TableSpec - the row loop of parse_attributes_table (lines 89-134).    *)
(***************************************************************************)
EXTENDS Integers, Sequences, FiniteSets, TLC

VARIABLES
    pc,          \* main(): "loop" | "done" | "aborted"
    registry,    \* openapi_components["schemas"]: SchemaName -> ObjectSchema
    emitted,     \* Actor.push_data(openapi) has been called
    fetched,     \* number of <li> links the loop has taken
    page,        \* the page the last iteration fetched (NoPage before)
    result,      \* what parse_page did with it: [kind, exc, schemas]
    tpc,         \* parse_attributes_table: "loop" | "returned" | "raised"
    row,         \* the <tr> the last loop iteration took (NoRow before)
    properties,  \* local `properties`
    required,    \* local `required`
    nrows,       \* number of rows taken so far
    exc          \* exception that left the row loop ("" when none)

vars == <<pc, registry, emitted, fetched, page, result,
          tpc, row, properties, required, nrows, exc>>
mainVars == <<pc, registry, emitted, fetched, page, result>>
tableVars == <<tpc, row, properties, required, nrows, exc>>

(***************************************************************************)
(* Bounds.                                                                 *)
(***************************************************************************)
MaxPages == 3
MaxRows == 2

(***************************************************************************)
(* Python values.                                                          *)
(***************************************************************************)
None == <<"None">>

LowerAlpha == <<"a","b","c","d","e","f","g","h","i","j","k","l","m",
                "n","o","p","q","r","s","t","u","v","w","x","y","z">>
UpperAlpha == <<"A","B","C","D","E","F","G","H","I","J","K","L","M",
                "N","O","P","Q","R","S","T","U","V","W","X","Y","Z">>
Whitespace == {" ", "\t", "\n"}

char_lower(c) ==
    IF \E i \in DOMAIN UpperAlpha : UpperAlpha[i] = c
    THEN LowerAlpha[CHOOSE i \in DOMAIN UpperAlpha : UpperAlpha[i] = c]
    ELSE c

char_upper(c) ==
    IF \E i \in DOMAIN LowerAlpha : LowerAlpha[i] = c
    THEN UpperAlpha[CHOOSE i \in DOMAIN LowerAlpha : LowerAlpha[i] = c]
    ELSE c

\* str.lower()
str_lower(s) == [i \in 1..Len(s) |-> char_lower(s[i])]

\* str.capitalize(): first character upper-cased, the rest lower-cased
str_capitalize(s) ==
    [i \in 1..Len(s) |-> IF i = 1 THEN char_upper(s[i]) ELSE char_lower(s[i])]

\* str.replace(old, new) for one-character old and new
str_replace(s, old, new) == [i \in 1..Len(s) |-> IF s[i] = old THEN new ELSE s[i]]

\* str.split(): the maximal runs of non-whitespace characters
RECURSIVE str_split_from(_, _, _)
str_split_from(s, i, cur) ==
    IF i > Len(s)
    THEN IF cur = <<>> THEN <<>> ELSE <<cur>>
    ELSE IF s[i] \in Whitespace
         THEN IF cur = <<>>
              THEN str_split_from(s, i + 1, <<>>)
              ELSE <<cur>> \o str_split_from(s, i + 1, <<>>)
         ELSE str_split_from(s, i + 1, Append(cur, s[i]))

str_split(s) == str_split_from(s, 1, <<>>)

\* ''.join(words)
RECURSIVE str_join(_)
str_join(words) ==
    IF words = <<>> THEN <<>> ELSE Head(words) \o str_join(Tail(words))

\* str.lstrip(c) for a one-character c
RECURSIVE str_lstrip(_, _)
str_lstrip(s, c) ==
    IF s # <<>> /\ Head(s) = c THEN str_lstrip(Tail(s), c) ELSE s

(***************************************************************************)
(* to_camel_case, lines 22-27.  Result [exc, value]: s[0] raises           *)
(* IndexError when the text is non-empty and holds no word.                *)
(***************************************************************************)
to_camel_case(text) ==
    LET s == str_split(str_replace(str_replace(text, "-", " "), "_", " "))
    IN  IF Len(text) = 0 THEN [exc |-> "", value |-> text]
        ELSE IF s = <<>> THEN [exc |-> "IndexError", value |-> None]
        ELSE [exc |-> "",
              value |-> s[1] \o str_join([i \in 1..(Len(s) - 1) |->
                                             str_capitalize(s[i + 1])])]

(***************************************************************************)
(* dereference, lines 83-86.                                               *)
(***************************************************************************)
dereference(object_name) == str_lstrip(object_name, "#")

(***************************************************************************)
(* String literals of the source and of the documentation pages.           *)
(***************************************************************************)
s_String == <<"S","t","r","i","n","g">>
s_Integer == <<"I","n","t","e","g","e","r">>
s_Boolean == <<"B","o","o","l","e","a","n">>
s_DateTime == <<"D","a","t","e","T","i","m","e">>
s_Datetime == <<"D","a","t","e","t","i","m","e">>
s_Date == <<"D","a","t","e">>
s_Decimal == <<"D","e","c","i","m","a","l">>
s_string == <<"s","t","r","i","n","g">>
s_integer == <<"i","n","t","e","g","e","r">>
s_boolean == <<"b","o","o","l","e","a","n">>
s_number == <<"n","u","m","b","e","r">>
s_array == <<"a","r","r","a","y">>
s_object == <<"o","b","j","e","c","t">>
s_date_time == <<"d","a","t","e","-","t","i","m","e">>
s_date == <<"d","a","t","e">>
s_decimal == <<"d","e","c","i","m","a","l">>
s_ArrayOpen == <<"A","r","r","a","y","[">>
s_Object == <<"O","b","j","e","c","t">>
s_ArrayClose == <<"]">>
s_RefPrefix == <<"#","/","c","o","m","p","o","n","e","n","t","s","/","s","c","h","e","m","a","s","/">>
s_AttributesSuffix == <<".","A","t","t","r","i","b","u","t","e","s">>
s_Required == <<"R","e","q","u","i","r","e","d"," ","a","t","t","r","i","b","u","t","e">>
s_ReadOnly == <<"R","e","a","d","-","o","n","l","y"," ","a","t","t","r","i","b","u","t","e">>

(***************************************************************************)
(* SIMPLE_TYPES, lines 72-80: type token -> <<type, format>>.              *)
(***************************************************************************)
SIMPLE_TYPES_no_Datetime ==
    (s_String :> <<s_string, None>>) @@
    (s_Integer :> <<s_integer, None>>) @@
    (s_Boolean :> <<s_boolean, None>>) @@
    (s_DateTime :> <<s_string, s_date_time>>) @@
    (s_Date :> <<s_string, s_date>>) @@
    (s_Decimal :> <<s_number, s_decimal>>)

SIMPLE_TYPES ==
    (s_String :> <<s_string, None>>) @@
    (s_Integer :> <<s_integer, None>>) @@
    (s_Boolean :> <<s_boolean, None>>) @@
    (s_DateTime :> <<s_string, s_date_time>>) @@
    (s_Datetime :> <<s_string, s_date_time>>) @@
    (s_Date :> <<s_string, s_date>>) @@
    (s_Decimal :> <<s_number, s_decimal>>)

\* Python truth value of a str or None
Truthy(v) == v # None /\ v # <<>>

\* Python truth value of a list or dict (the empty list is <<>>)
NonEmpty(v) == DOMAIN v # {}

\* d[key] = value on a dict
dict_set(d, key, value) ==
    [k \in DOMAIN d \cup {key} |-> IF k = key THEN value ELSE d[k]]

(***************************************************************************)
(* parse_attributes_table, lines 104-122: the type cell of a row.          *)
(* A type cell is [code, tokens, anchor, hasHref, href]: whether it holds  *)
(* a <code> span, the strings of the span, whether the span holds an <a>,  *)
(* and that element's href.  Result [exc, prop_type, prop_format, items].  *)
(***************************************************************************)
unresolved_type_raises ==
    [exc |-> "ValueError", prop_type |-> None, prop_format |-> None, items |-> <<>>]

\* lines 106-108 and 121-122: the initial values survive the else branch
unresolved_type ==
    [exc |-> "", prop_type |-> None, prop_format |-> None, items |-> <<>>]

resolve_type(type_td) ==
    LET soup_type_strings == type_td.tokens
    IN  IF ~type_td.code
        THEN [exc |-> "AttributeError", prop_type |-> None,
              prop_format |-> None, items |-> <<>>]
        ELSE IF Len(soup_type_strings) = 3
                /\ soup_type_strings = <<s_ArrayOpen, s_Object, s_ArrayClose>>
        THEN IF ~type_td.anchor
             THEN [exc |-> "AttributeError", prop_type |-> None,
                   prop_format |-> None, items |-> <<>>]
             ELSE IF ~type_td.hasHref
             THEN [exc |-> "KeyError", prop_type |-> None,
                   prop_format |-> None, items |-> <<>>]
             ELSE [exc |-> "", prop_type |-> s_array, prop_format |-> None,
                   items |-> ("$ref" :> (s_RefPrefix \o dereference(type_td.href)))]
        ELSE IF Len(soup_type_strings) = 1
        THEN IF soup_type_strings[1] \notin DOMAIN SIMPLE_TYPES
             THEN [exc |-> "", prop_type |-> s_string,
                   prop_format |-> str_lower(soup_type_strings[1]), items |-> <<>>]
             ELSE [exc |-> "", prop_type |-> SIMPLE_TYPES[soup_type_strings[1]][1],
                   prop_format |-> SIMPLE_TYPES[soup_type_strings[1]][2],
                   items |-> <<>>]
        ELSE unresolved_type

(***************************************************************************)
(* Lines 124-131: the PropertySchema dict of a row.                        *)
(***************************************************************************)
property_schema_always_format(prop_type, description, items, prop_format) ==
    LET base == ("type" :> prop_type) @@ ("description" :> description)
        withItems == IF NonEmpty(items) THEN base @@ ("items" :> items) ELSE base
    IN  withItems @@ ("format" :> prop_format)

property_schema(prop_type, description, items, prop_format) ==
    LET base == ("type" :> prop_type) @@ ("description" :> description)
        withItems == IF NonEmpty(items) THEN base @@ ("items" :> items) ELSE base
    IN  IF Truthy(prop_format)
        THEN withItems @@ ("format" :> prop_format)
        ELSE withItems

(***************************************************************************)
(* Lines 98-102: the visibility cell [div, hasTitle, title].  Result       *)
(* [exc, required]: attrs['title'] raises KeyError on a marker <div> that  *)
(* has no title attribute.                                                 *)
(***************************************************************************)
visibility_prepend(vis_td, req, prop_name) ==
    IF ~vis_td.div THEN [exc |-> "", required |-> req]
    ELSE IF ~vis_td.hasTitle THEN [exc |-> "KeyError", required |-> req]
    ELSE IF vis_td.title = s_Required
         THEN [exc |-> "", required |-> <<prop_name>> \o req]
         ELSE [exc |-> "", required |-> req]

visibility(vis_td, req, prop_name) ==
    IF ~vis_td.div THEN [exc |-> "", required |-> req]
    ELSE IF ~vis_td.hasTitle THEN [exc |-> "KeyError", required |-> req]
    ELSE IF vis_td.title = s_Required
         THEN [exc |-> "", required |-> Append(req, prop_name)]
         ELSE [exc |-> "", required |-> req]

(***************************************************************************)
(* Lines 97-131: the body of the row loop, on one <tr>.  A row is          *)
(* [cells, nameCode, name, vis, type, desc]: the number of element         *)
(* children, whether the attribute cell holds a <code> span, its string,   *)
(* the visibility cell, the type cell and the description text.            *)
(* Result [exc, properties, required]; an exception leaves the locals as   *)
(* they were at the raising statement.                                     *)
(***************************************************************************)
parse_cells(props, req, tr) ==
    IF ~tr.nameCode
    THEN [exc |-> "AttributeError", properties |-> props, required |-> req]
    ELSE LET prop_name == tr.name
             v == visibility(tr.vis, req, prop_name)
             t == resolve_type(tr.type)
         IN  IF v.exc # ""
             THEN [exc |-> v.exc, properties |-> props, required |-> v.required]
             ELSE IF t.exc # ""
             THEN [exc |-> t.exc, properties |-> props, required |-> v.required]
             ELSE [exc |-> "",
                   properties |-> dict_set(props, prop_name,
                       property_schema(t.prop_type, tr.desc, t.items, t.prop_format)),
                   required |-> v.required]

parse_row_skipping(props, req, tr) ==
    IF tr.cells # 4 \/ ~tr.nameCode \/ ~tr.type.code
    THEN [exc |-> "", properties |-> props, required |-> req]
    ELSE parse_cells(props, req, tr)

\* line 96: the unpacking into four cells, then lines 97-131
parse_row(props, req, tr) ==
    IF tr.cells # 4
    THEN [exc |-> "ValueError", properties |-> props, required |-> req]
    ELSE parse_cells(props, req, tr)

(***************************************************************************)
(* parse_attributes_table, lines 89-134, on a table [present, tbody, rows] *)
(* (`table` is None when the container holds no <table>).  Result          *)
(* [exc, properties, required].                                            *)
(***************************************************************************)
RECURSIVE parse_rows(_, _, _)
parse_rows(props, req, rows) ==
    IF rows = <<>>
    THEN [exc |-> "", properties |-> props, required |-> req]
    ELSE LET r == parse_row(props, req, Head(rows))
         IN  IF r.exc # "" THEN r
             ELSE parse_rows(r.properties, r.required, Tail(rows))

parse_attributes_table(table) ==
    IF ~table.present \/ ~table.tbody
    THEN [exc |-> "AttributeError", properties |-> <<>>, required |-> <<>>]
    ELSE parse_rows(<<>>, <<>>, table.rows)

(***************************************************************************)
(* The rows the documentation pages may hold.                              *)
(***************************************************************************)
s_id == <<"i","d">>
s_name == <<"n","a","m","e">>
s_TheId == <<"T","h","e"," ","i","d">>
s_Money == <<"M","o","n","e","y">>
s_Deprecated == <<"D","e","p","r","e","c","a","t","e","d">>
s_required_lc == <<"r","e","q","u","i","r","e","d"," ","a","t","t","r","i","b","u","t","e">>
s_hashLine == <<"#","L","i","n","e">>
s_Line == <<"L","i","n","e">>
s_hashhashLine == <<"#","#","L","i","n","e">>
s_hash == <<"#">>

Names == {s_id, s_name}

NoVis == [div |-> FALSE, hasTitle |-> FALSE, title |-> <<>>]
VisCells ==
    {NoVis, [div |-> TRUE, hasTitle |-> FALSE, title |-> <<>>]}
    \cup {[div |-> TRUE, hasTitle |-> TRUE, title |-> t] :
             t \in {s_Required, s_ReadOnly, s_Deprecated, s_required_lc}}

ArrayPattern == <<s_ArrayOpen, s_Object, s_ArrayClose>>
KnownTokens == {s_String, s_Integer, s_Boolean, s_DateTime, s_Datetime,
                s_Date, s_Decimal}
UnknownTokens == {s_Money, s_string}
OtherShapes == {<<>>, <<s_ArrayOpen, s_Object>>,
                <<s_ArrayOpen, s_String, s_ArrayClose>>,
                <<s_ArrayOpen, s_Object, s_ArrayClose, s_ArrayClose>>}
Hrefs == {s_hashLine, s_Line, s_hashhashLine, s_hash}

NoTypeCode == [code |-> FALSE, tokens |-> <<>>, anchor |-> FALSE,
               hasHref |-> FALSE, href |-> <<>>]
PlainType(tokens) == [code |-> TRUE, tokens |-> tokens, anchor |-> FALSE,
                      hasHref |-> FALSE, href |-> <<>>]
LinkType(tokens, href) == [code |-> TRUE, tokens |-> tokens, anchor |-> TRUE,
                           hasHref |-> TRUE, href |-> href]
TypeCells ==
    {NoTypeCode}
    \cup {PlainType(<<t>>) : t \in KnownTokens \cup UnknownTokens}
    \cup {PlainType(t) : t \in OtherShapes \cup {ArrayPattern}}
    \cup {[code |-> TRUE, tokens |-> ArrayPattern, anchor |-> TRUE,
           hasHref |-> FALSE, href |-> <<>>]}
    \cup {LinkType(ArrayPattern, h) : h \in Hrefs}
    \cup {LinkType(<<s_ArrayOpen, s_String, s_ArrayClose>>, s_hashLine)}

Row(cells, nameCode, name, vis, type) ==
    [cells |-> cells, nameCode |-> nameCode, name |-> name, vis |-> vis,
     type |-> type, desc |-> s_TheId]
NoRow == Row(0, FALSE, <<>>, NoVis, NoTypeCode)

Rows ==
    {Row(4, TRUE, n, v, t) : n \in Names, v \in VisCells, t \in TypeCells}
    \cup {Row(c, TRUE, s_id, v, PlainType(<<s_Integer>>)) :
             c \in {3, 5}, v \in {NoVis, [div |-> TRUE, hasTitle |-> TRUE,
                                           title |-> s_Required]}}
    \cup {Row(4, FALSE, <<>>, v, PlainType(<<s_Integer>>)) :
             v \in {NoVis, [div |-> TRUE, hasTitle |-> TRUE,
                            title |-> s_Required]}}

(***************************************************************************)
(* TableSpec: parse_attributes_table as a state machine, one action per    *)
(* iteration of the row loop.  The table's rows are the successive inputs. *)
(***************************************************************************)
MainIdle ==
    /\ pc = "idle"
    /\ registry = <<>>
    /\ emitted = FALSE
    /\ fetched = 0
    /\ page = <<>>
    /\ result = <<>>

TableInit ==
    /\ MainIdle
    /\ tpc = "start"
    /\ row = NoRow
    /\ properties = <<>>
    /\ required = <<>>
    /\ nrows = 0
    /\ exc = ""

\* lines 90-94: the locals, then table.tbody.find_all('tr')
TableBegin(tbody) ==
    /\ tpc = "start"
    /\ IF tbody
       THEN tpc' = "loop" /\ exc' = ""
       ELSE tpc' = "raised" /\ exc' = "AttributeError"
    /\ UNCHANGED <<row, properties, required, nrows, mainVars>>

\* lines 94-131: one iteration of the loop
TableRow(tr) ==
    /\ tpc = "loop"
    /\ nrows < MaxRows
    /\ LET r == parse_row(properties, required, tr)
       IN  /\ row' = tr
           /\ nrows' = nrows + 1
           /\ properties' = r.properties
           /\ required' = r.required
           /\ exc' = r.exc
           /\ tpc' = IF r.exc = "" THEN "loop" ELSE "raised"
    /\ UNCHANGED mainVars

\* line 134: the loop is exhausted
TableReturn ==
    /\ tpc = "loop"
    /\ tpc' = "returned"
    /\ UNCHANGED <<row, properties, required, nrows, exc, mainVars>>

TableNext ==
    \/ \E tbody \in BOOLEAN : TableBegin(tbody)
    \/ \E tr \in Rows : TableRow(tr)
    \/ TableReturn

TableSpec == TableInit /\ [][TableNext]_vars

(***************************************************************************)
(* parse_page, lines 36-69, on a fetched page.  A page is                  *)
(* [link, article, h1, groupName, attrHeading, attribsDiv, table,          *)
(*  notesDiv, h3, h2]: whether the index <li> holds an <a>, whether the    *)
(* page holds the api-article container, whether the container's parent    *)
(* holds an <h1> and its text, whether the container holds the element     *)
(* with id "attributes", whether a <div> sibling follows it, the <table>   *)
(* inside that <div>, whether a further <div> sibling follows, and whether *)
(* <h3> and <h2> siblings follow that one.                                 *)
(* Result [kind, exc, schemas], kind "raised" | "none" | "schemas".        *)
(***************************************************************************)
Raised(e) == [kind |-> "raised", exc |-> e, schemas |-> <<>>]

object_schema(props, req) ==
    LET schema_dict == ("type" :> s_object) @@ ("properties" :> props)
    IN  IF NonEmpty(req) THEN schema_dict @@ ("required" :> req) ELSE schema_dict

\* lines 43-69: the attributes section
parse_attributes_section(p) ==
    IF ~p.attribsDiv THEN Raised("AttributeError")
    ELSE IF ~p.notesDiv THEN Raised("AttributeError")
    ELSE LET t == parse_attributes_table(p.table)
             name == to_camel_case(p.groupName)
         IN  IF t.exc # "" THEN Raised(t.exc)
             ELSE IF name.exc # "" THEN Raised(name.exc)
             ELSE [kind |-> "schemas", exc |-> "",
                   schemas |-> ((name.value \o s_AttributesSuffix) :>
                                    object_schema(t.properties, t.required))]

parse_article_no_early_return(p) ==
    IF ~p.h1 THEN Raised("AttributeError")
    ELSE IF ~p.attrHeading THEN Raised("AttributeError")
    ELSE parse_attributes_section(p)

\* lines 37-41: the group name, the attributes heading, the early return
parse_article(p) ==
    IF ~p.h1 THEN Raised("AttributeError")
    ELSE IF ~p.attrHeading
    THEN [kind |-> "none", exc |-> "", schemas |-> <<>>]
    ELSE parse_attributes_section(p)

parse_page_lenient(p) ==
    IF ~p.article
    THEN [kind |-> "none", exc |-> "", schemas |-> <<>>]
    ELSE parse_article(p)

\* line 36 and the dereference of its result on line 37
parse_page(p) ==
    IF ~p.article THEN Raised("AttributeError")
    ELSE parse_article(p)

(***************************************************************************)
(* main, lines 202-205: the registry aggregation of one page result.       *)
(* Result [exc, registry].                                                 *)
(***************************************************************************)
RECURSIVE aggregate_items(_, _, _)
aggregate_items(reg, schemas, keys) ==
    IF keys = {} THEN [exc |-> "", registry |-> reg]
    ELSE LET cls_name == CHOOSE k \in keys : TRUE
         IN  IF cls_name \in DOMAIN reg
             THEN [exc |-> "AssertionError", registry |-> reg]
             ELSE aggregate_items(dict_set(reg, cls_name, schemas[cls_name]),
                                  schemas, keys \ {cls_name})

aggregate_no_assert(reg, res) ==
    IF res.kind = "schemas"
    THEN [exc |-> "",
          registry |-> [k \in DOMAIN reg \cup DOMAIN res.schemas |->
                           IF k \in DOMAIN res.schemas THEN res.schemas[k]
                           ELSE reg[k]]]
    ELSE [exc |-> "", registry |-> reg]

aggregate(reg, res) ==
    IF res.kind = "schemas"
    THEN aggregate_items(reg, res.schemas, DOMAIN res.schemas)
    ELSE [exc |-> "", registry |-> reg]

(***************************************************************************)
(* The pages the documentation site may serve.                             *)
(***************************************************************************)
s_invoice_line == <<"i","n","v","o","i","c","e","-","l","i","n","e">>
s_invoice_space_line == <<"i","n","v","o","i","c","e"," ","l","i","n","e">>
s_invoice_LINE == <<"i","n","v","o","i","c","e"," ","L","I","N","E">>
s_Invoice_Line_Item == <<"I","n","v","o","i","c","e","_","L","i","n","e"," ","I","t","e","m">>
s_blank == <<" ">>
GroupNames == {s_invoice_line, s_invoice_space_line, s_invoice_LINE,
               s_Invoice_Line_Item, <<>>, s_blank}

ReqVis == [div |-> TRUE, hasTitle |-> TRUE, title |-> s_Required]
RoVis == [div |-> TRUE, hasTitle |-> TRUE, title |-> s_ReadOnly]
IdRow == Row(4, TRUE, s_id, ReqVis, PlainType(<<s_Integer>>))
NameRow == Row(4, TRUE, s_name, RoVis, PlainType(<<s_String>>))
LinesRow == Row(4, TRUE, s_name, NoVis, LinkType(ArrayPattern, s_hashLine))
ShortRow == Row(3, TRUE, s_id, NoVis, PlainType(<<s_Integer>>))

NoTable == [present |-> FALSE, tbody |-> FALSE, rows |-> <<>>]
Table(rows) == [present |-> TRUE, tbody |-> TRUE, rows |-> rows]
PageTables ==
    {NoTable, [present |-> TRUE, tbody |-> FALSE, rows |-> <<>>],
     Table(<<>>), Table(<<IdRow>>), Table(<<IdRow, NameRow>>),
     Table(<<LinesRow>>), Table(<<IdRow, ShortRow, NameRow>>)}

Page(link, article, h1, groupName, attrHeading, attribsDiv, table, notesDiv, h3, h2) ==
    [link |-> link, article |-> article, h1 |-> h1, groupName |-> groupName,
     attrHeading |-> attrHeading, attribsDiv |-> attribsDiv, table |-> table,
     notesDiv |-> notesDiv, h3 |-> h3, h2 |-> h2]
NoPage == Page(FALSE, FALSE, FALSE, <<>>, FALSE, FALSE, NoTable, FALSE, FALSE, FALSE)

\* An element that hangs below or beside an absent element is absent too.
Pages ==
    {NoPage, Page(TRUE, FALSE, FALSE, <<>>, FALSE, FALSE, NoTable, FALSE, FALSE, FALSE)}
    \cup {Page(TRUE, TRUE, FALSE, <<>>, a, FALSE, NoTable, FALSE, FALSE, FALSE) :
             a \in BOOLEAN}
    \cup {Page(TRUE, TRUE, TRUE, g, a, FALSE, NoTable, FALSE, FALSE, FALSE) :
             g \in GroupNames, a \in BOOLEAN}
    \cup {Page(TRUE, TRUE, TRUE, g, TRUE, TRUE, t, FALSE, FALSE, FALSE) :
             g \in GroupNames, t \in PageTables}
    \cup {Page(TRUE, TRUE, TRUE, g, TRUE, TRUE, t, TRUE, h3, h2) :
             g \in GroupNames, t \in PageTables, h3 \in BOOLEAN, h2 \in BOOLEAN}

(***************************************************************************)
(* Spec: main(), lines 199-207.                                            *)
(***************************************************************************)
NoResult == [kind |-> "none", exc |-> "", schemas |-> <<>>]

TableIdle ==
    /\ tpc = "idle"
    /\ row = NoRow
    /\ properties = <<>>
    /\ required = <<>>
    /\ nrows = 0
    /\ exc = ""

Init ==
    /\ pc = "loop"
    /\ registry = <<>>
    /\ emitted = FALSE
    /\ fetched = 0
    /\ page = NoPage
    /\ result = NoResult
    /\ TableIdle

\* lines 199-205: one iteration of the loop over the index page's links
LoopPage(p) ==
    /\ pc = "loop"
    /\ fetched < MaxPages
    /\ fetched' = fetched + 1
    /\ page' = p
    /\ emitted' = emitted
    /\ IF ~p.link
       THEN /\ result' = NoResult
            /\ registry' = registry
            /\ pc' = "aborted"
       ELSE LET schemas == parse_page(p)
                merged == aggregate(registry, schemas)
            IN  /\ result' = schemas
                /\ registry' = merged.registry
                /\ pc' = IF schemas.kind = "raised" \/ merged.exc # ""
                         THEN "aborted" ELSE "loop"
    /\ UNCHANGED tableVars

\* line 207: the loop is exhausted, Actor.push_data(openapi)
PushData ==
    /\ pc = "loop"
    /\ pc' = "done"
    /\ emitted' = TRUE
    /\ UNCHANGED <<registry, fetched, page, result, tableVars>>

Next ==
    \/ \E p \in Pages : LoopPage(p)
    \/ PushData

Spec == Init /\ [][Next]_vars

(***************************************************************************)
(* Claims about parse_attributes_table, checked under TableSpec.           *)
(***************************************************************************)
\* the row loop took at least one row and the last one did not raise
RowDone == nrows > 0 /\ tpc \in {"loop", "returned"}

\* the row has the four cells and both <code> spans
WellFormed(tr) == tr.cells = 4 /\ tr.nameCode /\ tr.type.code
\* the visibility cell is readable: no marker, or a marker with a title
VisReadable(tr) == ~tr.vis.div \/ tr.vis.hasTitle
\* the type cell is readable: the array pattern comes with its link
TypeReadable(tr) ==
    tr.type.tokens = ArrayPattern => (tr.type.anchor /\ tr.type.hasHref)

\* C2 as stated: a malformed row (not four cells, or no <code> span for the
\* name or the type) does not abort the table.
C2_Original == (nrows > 0 /\ ~WellFormed(row)) => tpc # "raised"

\* C2 as amended: a malformed row aborts the whole table; at that row
\* parse_attributes_table raises, adds no property, takes no further row
\* and returns nothing.
C2_MalformedRowAborts ==
    [][ /\ (nrows' = nrows + 1 /\ ~WellFormed(row'))
            => /\ tpc' = "raised"
               /\ exc' # ""
               /\ properties' = properties
        /\ tpc = "raised" => (tpc' = "raised" /\ nrows' = nrows) ]_vars

C2_Witness ==
    /\ tpc = "raised"
    /\ nrows = 2
    /\ ~WellFormed(row)
    /\ DOMAIN properties # {}

s_money == <<"m","o","n","e","y">>
ExpectedLower(token) ==
    CASE token = s_Money -> s_money
      [] token = s_string -> s_string
ExpectedPair(token) ==
    CASE token = s_String -> <<s_string, None>>
      [] token = s_Integer -> <<s_integer, None>>
      [] token = s_Boolean -> <<s_boolean, None>>
      [] token = s_DateTime -> <<s_string, s_date_time>>
      [] token = s_Datetime -> <<s_string, s_date_time>>
      [] token = s_Date -> <<s_string, s_date>>
      [] token = s_Decimal -> <<s_number, s_decimal>>
\* the href without its leading '#' characters
ExpectedTarget(href) ==
    LET n == CHOOSE k \in 0..Len(href) :
                 /\ \A i \in 1..k : href[i] = "#"
                 /\ (k < Len(href) => href[k + 1] # "#")
    IN  SubSeq(href, n + 1, Len(href))
FormatOf(e) == IF "format" \in DOMAIN e THEN e["format"] ELSE None

\* C5: the property of a parsed row follows the decision policy: the array
\* pattern gives array, no format, items $ref '#/components/schemas/' + the
\* href without leading '#'; a single token of the table gives the table's
\* pair; any other single token gives string with the lower-cased token as
\* format and no items.
C5_TypeResolution ==
    RowDone =>
        LET e == properties[row.name]
            tokens == row.type.tokens
        IN  /\ tokens = ArrayPattern
                => /\ e["type"] = s_array
                   /\ "format" \notin DOMAIN e
                   /\ "items" \in DOMAIN e
                   /\ e["items"] = ("$ref" :> (s_RefPrefix \o ExpectedTarget(row.type.href)))
            /\ (Len(tokens) = 1 /\ tokens[1] \in KnownTokens)
                => /\ <<e["type"], FormatOf(e)>> = ExpectedPair(tokens[1])
                   /\ "items" \notin DOMAIN e
            /\ (Len(tokens) = 1 /\ tokens[1] \notin KnownTokens)
                => /\ e["type"] = s_string
                   /\ FormatOf(e) = ExpectedLower(tokens[1])
                   /\ "items" \notin DOMAIN e

C5_Witness ==
    /\ RowDone
    /\ nrows = 2
    /\ row.name = s_name
    /\ row.type.tokens = <<s_Money>>
    /\ s_id \in DOMAIN properties
    /\ "items" \in DOMAIN properties[s_id]
    /\ properties[s_id]["items"] = ("$ref" :> (s_RefPrefix \o s_Line))

\* neither the array pattern nor a single token
OtherShape(tokens) == tokens # ArrayPattern /\ Len(tokens) # 1

\* C6: a row whose type tokens are neither the array pattern nor a single
\* token is not fatal: its property is emitted with type null and neither
\* format nor items, and the loop goes on.
C6_UnresolvedNotFatal ==
    (nrows > 0 /\ WellFormed(row) /\ VisReadable(row) /\ OtherShape(row.type.tokens))
        => /\ tpc \in {"loop", "returned"}
           /\ exc = ""
           /\ row.name \in DOMAIN properties
           /\ properties[row.name] = ("type" :> None) @@ ("description" :> row.desc)

C6_Witness ==
    /\ tpc = "loop"
    /\ nrows = 2
    /\ row.name = s_name
    /\ OtherShape(row.type.tokens)
    /\ Len(row.type.tokens) = 3
    /\ s_id \in DOMAIN properties
    /\ properties[s_id]["type"] = None
    /\ properties[s_name]["type"] = None

\* C7: in every emitted PropertySchema 'items' is present iff the type
\* resolved to array-of-reference, and 'format' is present iff the resolver
\* gave a non-null format or took the unknown-single-token fallback.
C7_ItemsFormatKeys ==
    /\ RowDone =>
        LET e == properties[row.name]
            tokens == row.type.tokens
        IN  /\ "items" \in DOMAIN e <=> tokens = ArrayPattern
            /\ "format" \in DOMAIN e <=>
                   /\ Len(tokens) = 1
                   /\ \/ tokens[1] \in {s_DateTime, s_Datetime, s_Date, s_Decimal}
                      \/ tokens[1] \notin KnownTokens
    /\ \A n \in DOMAIN properties :
           /\ "items" \in DOMAIN properties[n] <=> properties[n]["type"] = s_array
           /\ "format" \in DOMAIN properties[n]
                  => properties[n]["type"] \in {s_string, s_number}

C7_Witness ==
    /\ RowDone
    /\ nrows = 2
    /\ DOMAIN properties = {s_id, s_name}
    /\ DOMAIN properties[s_id] = {"type", "description", "items"}
    /\ DOMAIN properties[s_name] = {"type", "description", "format"}
    /\ row.type.tokens = <<s_Money>>

\* the visibility cell holds a marker titled exactly 'Required attribute'
RequiredMarker(tr) == tr.vis.div /\ tr.vis.hasTitle /\ tr.vis.title = s_Required

\* C8: between rows and on return every name of `required` is a key of
\* `properties`, and `required` grows by exactly the name of each required
\* row, at its end, in the order of the rows.
C8_RequiredInProperties ==
    [][ /\ tpc' \in {"loop", "returned"}
            => \A i \in DOMAIN required' : required'[i] \in DOMAIN properties'
        /\ (nrows' = nrows + 1 /\ tpc' = "loop")
            => required' = IF RequiredMarker(row')
                           THEN Append(required, row'.name)
                           ELSE required
        /\ tpc' = "returned" => (required' = required /\ properties' = properties)
      ]_vars

C8_Witness ==
    /\ tpc = "returned"
    /\ required = <<s_name, s_id>>
    /\ DOMAIN properties = {s_id, s_name}

\* C9 as stated: a row is required iff its marker is titled exactly
\* 'Required attribute'; with any other title, with no title at all and with
\* no marker the row is not required and is still parsed into a property.
C9_Original ==
    (nrows > 0 /\ WellFormed(row) /\ TypeReadable(row))
        => /\ tpc # "raised"
           /\ row.name \in DOMAIN properties
           /\ RequiredMarker(row)
                  => (required # <<>> /\ required[Len(required)] = row.name)
           /\ (~RequiredMarker(row) /\ nrows = 1) => required = <<>>

(***************************************************************************)
(* Claims about parse_page and the page loop of main, checked under Spec.  *)
(***************************************************************************)
\* this step is an iteration of the page loop on a page whose link was read
PageStep == fetched' = fetched + 1 /\ page'.link

\* C1: when a page result carries a schema name that is already a key of the
\* registry the run aborts and the registry keeps the first schema under
\* that name; no entry is ever overwritten or removed, and nothing is
\* emitted once the run has aborted.
C1_CollisionAborts ==
    [][ /\ (PageStep /\ result'.kind = "schemas"
               /\ \E k \in DOMAIN result'.schemas : k \in DOMAIN registry)
            => (pc' = "aborted" /\ registry' = registry /\ ~emitted')
        /\ \A k \in DOMAIN registry :
               k \in DOMAIN registry' /\ registry'[k] = registry[k]
        /\ pc = "aborted" => (pc' = "aborted" /\ ~emitted') ]_vars

C1_Witness ==
    /\ pc = "aborted"
    /\ ~emitted
    /\ result.kind = "schemas"
    /\ \E k \in DOMAIN result.schemas :
           /\ k \in DOMAIN registry
           /\ DOMAIN registry[k] # DOMAIN result.schemas[k]

\* the API-article container is missing, or the attributes heading is there
\* without its sibling container or without the table in it
StructuralError(p) ==
    \/ ~p.article
    \/ p.article /\ p.h1 /\ p.attrHeading /\ (~p.attribsDiv \/ ~p.table.present)

\* C3 as stated: a page-structural error ends that page only, not the run.
C3_Original ==
    (fetched > 0 /\ page.link /\ StructuralError(page)) => pc # "aborted"

\* C3 as amended: a page-structural error ends the entire run: parse_page
\* raises, the failing page adds nothing to the registry, the entries of
\* the earlier pages stay in it, no further page is fetched and the
\* document is not emitted.
C3_StructuralErrorAbortsRun ==
    [][ /\ (PageStep /\ StructuralError(page'))
            => /\ result'.kind = "raised"
               /\ pc' = "aborted"
               /\ registry' = registry
               /\ ~emitted'
        /\ pc = "aborted"
            => (pc' = "aborted" /\ ~emitted' /\ fetched' = fetched
                /\ registry' = registry) ]_vars

C3_Witness ==
    /\ pc = "aborted"
    /\ ~emitted
    /\ page.link
    /\ page.article /\ page.attrHeading /\ page.attribsDiv /\ ~page.table.present
    /\ result.kind = "raised"
    /\ Cardinality(DOMAIN registry) = 2

\* C4 as stated: a page whose container has no attributes heading is a
\* normal outcome: parse_page returns nothing and the loop goes on.
C4_Original ==
    (fetched > 0 /\ page.link /\ page.article /\ ~page.attrHeading)
        => (result.kind = "none" /\ pc # "aborted")

\* C4 as amended: a page whose container has no attributes heading, and
\* whose container's parent holds an <h1>, is a normal outcome: parse_page
\* returns None, the registry is left as it was and the loop goes on.
C4_NoAttributesHeading ==
    [][ (PageStep /\ page'.article /\ page'.h1 /\ ~page'.attrHeading)
            => /\ result'.kind = "none"
               /\ registry' = registry
               /\ pc' = "loop" ]_vars

C4_Witness ==
    /\ pc = "loop"
    /\ fetched = 2
    /\ page.link /\ page.article /\ page.h1 /\ ~page.attrHeading
    /\ result.kind = "none"
    /\ Cardinality(DOMAIN registry) = 1

\* every row of the table has its four cells, its spans and readable cells
RowsReadable(rows) ==
    \A i \in DOMAIN rows :
        WellFormed(rows[i]) /\ VisReadable(rows[i]) /\ TypeReadable(rows[i])
\* the heading text is empty or holds a word
NameUsable(g) == g = <<>> \/ \E i \in DOMAIN g : g[i] \notin Whitespace

\* C10 as stated: a page with the container, its heading, the attributes
\* heading, the sibling container and a table in it yields exactly one
\* entry, keyed camelCase(groupName) + '.Attributes', of type object, with
\* `required` only if non-empty, whatever follows the table's container.
C10_Original ==
    (/\ fetched > 0
     /\ page.link /\ page.article /\ page.h1 /\ page.attrHeading
     /\ page.attribsDiv /\ page.table.present /\ page.table.tbody
     /\ RowsReadable(page.table.rows)
     /\ NameUsable(page.groupName))
        => /\ result.kind = "schemas"
           /\ Cardinality(DOMAIN result.schemas) = 1
           /\ \A k \in DOMAIN result.schemas :
                  /\ k = to_camel_case(page.groupName).value \o s_AttributesSuffix
                  /\ result.schemas[k]["type"] = s_object
                  /\ "properties" \in DOMAIN result.schemas[k]
                  /\ "required" \in DOMAIN result.schemas[k]
                         => result.schemas[k]["required"] # <<>>

=============================================================================
